---------------------------- MODULE Spec2Model ----------------------------
(***************************************************************************)
(* Model of the gold/silver ETL pipeline: app/transform.py (validation,    *)
(* change calculation, transformation), app/database.py (the SQLite price  *)
(* store) and app/main.py (the run driver).                                *)
(*                                                                         *)
(* Numbers are fixed-point: a price is an integer number of tenths         *)
(* (2000.0 is 20000, 28.5 is 285) and a percentage change is an integer    *)
(* number of hundredths of a percent (5.0 is 500).                         *)
(* A Python string that is a date is a sequence of one-character strings,  *)
(* so that both its text order (SQLite) and its parse (datetime) are       *)
(* computed from the text.                                                 *)
(***************************************************************************)
EXTENDS Integers, Sequences, FiniteSets, Bags, TLC

(***************************************************************************)
(* Python values                                                           *)
(***************************************************************************)
None == [t |-> "none"]

Num(n) == [t |-> "num", n |-> n]

Str(s) == [t |-> "str", s |-> s]

IsNum(v) == v.t = "num"

\* Python truthiness of a value: None, 0 and "" are falsy.
Truthy(v) ==
    CASE v.t = "none" -> FALSE
      [] v.t = "num" -> v.n # 0
      [] v.t = "str" -> v.s # ""

\* float(v): raises TypeError for None, ValueError for a non-numeric string.
FloatCoercible(v) ==
    CASE v.t = "none" -> FALSE
      [] v.t = "num" -> TRUE
      [] v.t = "str" -> v.s \in {"2100"}

(***************************************************************************)
(* Text: characters, text order and ISO-8601 parsing                       *)
(***************************************************************************)
Digits == {"0", "1", "2", "3", "4", "5", "6", "7", "8", "9"}

\* Code point of every character the modelled strings use.
ord == [c \in Digits \cup {" ", "+", "-", ":", "T", "a", "d", "e", "n", "o", "t"} |->
          CASE c = " " -> 32 [] c = "+" -> 43 [] c = "-" -> 45
            [] c = "0" -> 48 [] c = "1" -> 49 [] c = "2" -> 50 [] c = "3" -> 51
            [] c = "4" -> 52 [] c = "5" -> 53 [] c = "6" -> 54 [] c = "7" -> 55
            [] c = "8" -> 56 [] c = "9" -> 57 [] c = ":" -> 58 [] c = "T" -> 84
            [] c = "a" -> 97 [] c = "d" -> 100 [] c = "e" -> 101
            [] c = "n" -> 110 [] c = "o" -> 111 [] c = "t" -> 116]

Min(a, b) == IF a <= b THEN a ELSE b

\* a < b in SQLite's BINARY collation (memcmp, the shorter prefix first).
TextLess(a, b) ==
    LET n == Min(Len(a), Len(b))
        diff == {i \in 1..n : a[i] # b[i]}
    IN IF diff = {}
       THEN Len(a) < Len(b)
       ELSE LET i == CHOOSE j \in diff : \A k \in diff : j <= k
            IN ord[a[i]] < ord[b[i]]

digit(c) == ord[c] - 48

\* The number written at positions i..j of s, or -1 when a position holds no digit.
RECURSIVE number(_, _, _)
number(s, i, j) ==
    IF i > j THEN 0
    ELSE IF s[j] \notin Digits THEN -1
    ELSE LET hi == number(s, i, j - 1)
         IN IF hi < 0 THEN -1 ELSE hi * 10 + digit(s[j])

IsLeap(y) == (y % 4 = 0 /\ y % 100 # 0) \/ y % 400 = 0

DaysInMonth(y, m) ==
    CASE m \in {1, 3, 5, 7, 8, 10, 12} -> 31
      [] m \in {4, 6, 9, 11} -> 30
      [] m = 2 -> IF IsLeap(y) THEN 29 ELSE 28

\* Days before the first of month m in year y.
RECURSIVE DaysBeforeMonth(_, _)
DaysBeforeMonth(y, m) ==
    IF m <= 1 THEN 0 ELSE DaysBeforeMonth(y, m - 1) + DaysInMonth(y, m - 1)

\* Proleptic Gregorian ordinal of y-m-d (datetime.date.toordinal).
Ordinal(y, m, d) ==
    LET p == y - 1
    IN p * 365 + (p \div 4) - (p \div 100) + (p \div 400) + DaysBeforeMonth(y, m) + d

Unparsed == [ok |-> FALSE]

\* A point in time as a day ordinal and the second of that day.
Instant(day, sec) == [day |-> day + (sec \div 86400), sec |-> sec % 86400]

NotAfter(a, b) == a.day < b.day \/ (a.day = b.day /\ a.sec <= b.sec)

\* datetime.fromisoformat for the forms YYYY-MM-DD, YYYY-MM-DD*HH:MM:SS and
\* YYYY-MM-DD*HH:MM:SS(+|-)HH:MM, where * is any single character.  Every other
\* text raises ValueError (ok = FALSE).  at is the naive wall-clock time, or
\* the UTC instant when the text carries an offset (aware = TRUE).
fromisoformat(s) ==
    IF Len(s) \notin {10, 19, 25} THEN Unparsed
    ELSE IF s[5] # "-" \/ s[8] # "-" THEN Unparsed
    ELSE LET y == number(s, 1, 4)
             m == number(s, 6, 7)
             d == number(s, 9, 10)
         IN IF y < 1 \/ m < 1 \/ m > 12 \/ d < 1 THEN Unparsed
            ELSE IF d > DaysInMonth(y, m) THEN Unparsed
            ELSE IF Len(s) = 10
                 THEN [ok |-> TRUE, aware |-> FALSE, at |-> Instant(Ordinal(y, m, d), 0)]
            ELSE IF s[14] # ":" \/ s[17] # ":" THEN Unparsed
            ELSE LET hh == number(s, 12, 13)
                     mi == number(s, 15, 16)
                     ss == number(s, 18, 19)
                     local == hh * 3600 + mi * 60 + ss
                 IN IF hh < 0 \/ hh > 23 \/ mi < 0 \/ mi > 59 \/ ss < 0 \/ ss > 59
                    THEN Unparsed
                    ELSE IF Len(s) = 19
                         THEN [ok |-> TRUE, aware |-> FALSE,
                               at |-> Instant(Ordinal(y, m, d), local)]
                    ELSE IF s[20] \notin {"+", "-"} \/ s[23] # ":" THEN Unparsed
                    ELSE LET oh == number(s, 21, 22)
                             om == number(s, 24, 25)
                             off == oh * 3600 + om * 60
                         IN IF oh < 0 \/ oh > 23 \/ om < 0 \/ om > 59 THEN Unparsed
                            ELSE [ok |-> TRUE, aware |-> TRUE,
                                  at |-> Instant(Ordinal(y, m, d),
                                                 IF s[20] = "+" THEN local - off
                                                 ELSE local + off)]

\* The outcome of  datetime.fromisoformat(a) <= datetime.fromisoformat(b):
\* "ValueError" when either text does not parse, "TypeError" when one is naive
\* and the other aware, else the comparison.
DateNotNewer(a, b) ==
    LET pa == fromisoformat(a)
        pb == fromisoformat(b)
    IN IF ~pa.ok \/ ~pb.ok THEN "ValueError"
       ELSE IF pa.aware # pb.aware THEN "TypeError"
       ELSE IF NotAfter(pa.at, pb.at) THEN "True" ELSE "False"

(***************************************************************************)
(* The date strings, prices and snapshots the model draws its inputs from  *)
(***************************************************************************)
Aug31 == <<"2", "0", "2", "5", "-", "0", "8", "-", "3", "1">>

Midnight == <<"0", "0">>

\* 2025-08-31<sep>HH:MM:00
Stamp(sep, hh, mi) == Aug31 \o <<sep>> \o hh \o <<":">> \o mi \o <<":">> \o Midnight

T1100 == Stamp("T", <<"1", "1">>, Midnight)

S1130 == Stamp(" ", <<"1", "1">>, <<"3", "0">>)

S1200 == Stamp(" ", <<"1", "2">>, Midnight)

Z1200 == Stamp("T", <<"1", "2">>, Midnight) \o <<"+", "0", "0", ":", "0", "0">>

NotADate == <<"n", "o", "t", "-", "a", "-", "d", "a", "t", "e">>

EmptyText == <<>>

\* Texts that parse: two separators (T and space) and one with a UTC offset.
ParseableDates == {T1100, S1130, S1200, Z1200}

Dates == ParseableDates \cup {NotADate}

Metals == {"gold", "silver"}

\* What a caller other than run_etl passes as price: 2000.0 in tenths.
ClientPrice == Num(20000)

Snapshot(g, s, ts) ==
    ("pax-gold" :> g) @@ ("silver-token-xagx" :> s) @@ ("timestamp" :> ts)

\* Gold 2000.0 and silver 30.0, or gold 2100.0 and silver 28.5, one pair per
\* timestamp.
ValidSnapshots ==
    { Snapshot(Num(20000), Num(300), T1100),
      Snapshot(Num(21000), Num(285), S1200),
      Snapshot(Num(21000), Num(285), S1130),
      Snapshot(Num(20000), Num(300), Z1200) }

\* A required key missing, a price float() rejects, a timestamp that does not parse.
InvalidSnapshots ==
    { ("pax-gold" :> Num(20000)),
      Snapshot(Str("invalid"), Num(300), T1100),
      Snapshot(Num(20000), None, T1100),
      Snapshot(Num(20000), Num(300), NotADate) }

Snapshots == ValidSnapshots \cup InvalidSnapshots

(***************************************************************************)
(* app/transform.py                                                        *)
(***************************************************************************)
required_keys == {"pax-gold", "silver-token-xagx", "timestamp"}

\* validate_data without the timestamp check.
validate_data_no_timestamp(prices) ==
    IF ~(required_keys \subseteq DOMAIN prices) THEN FALSE
    ELSE /\ FloatCoercible(prices["pax-gold"])
         /\ FloatCoercible(prices["silver-token-xagx"])

validate_data(prices) ==
    IF ~(required_keys \subseteq DOMAIN prices) THEN FALSE
    ELSE /\ FloatCoercible(prices["pax-gold"])
         /\ FloatCoercible(prices["silver-token-xagx"])
         /\ fromisoformat(prices["timestamp"]).ok

\* round(n / d) to the nearest integer, ties to even (Python's round), d # 0.
RoundHalfEven(n, d) ==
    LET nn == IF d < 0 THEN 0 - n ELSE n
        dd == IF d < 0 THEN 0 - d ELSE d
        q == nn \div dd
        r == nn - q * dd
    IN IF 2 * r < dd THEN q
       ELSE IF 2 * r > dd THEN q + 1
       ELSE IF q % 2 = 0 THEN q ELSE q + 1

Returned(v) == [raised |-> FALSE, value |-> v]

Raised(e) == [raised |-> TRUE, exc |-> e]

\* calculate_change without the test for a zero previous price.
calculate_change_no_zero_check(previous_usd, current_usd) ==
    IF ~IsNum(previous_usd) \/ ~IsNum(current_usd) THEN Returned(Num(0))
    ELSE IF previous_usd.n = 0 THEN Raised("ZeroDivisionError")
    ELSE Returned(Num(RoundHalfEven((current_usd.n - previous_usd.n) * 10000,
                                    previous_usd.n)))

\* The result is a percentage in hundredths: ((c - p) / p) * 100 with two
\* decimals is (c - p) * 10000 / p rounded to an integer.
calculate_change(previous_usd, current_usd) ==
    IF IsNum(previous_usd) /\ previous_usd.n = 0 THEN Returned(Num(0))
    ELSE IF ~IsNum(previous_usd) \/ ~IsNum(current_usd)
         THEN Returned(Num(0))                        \* TypeError, caught
    ELSE IF previous_usd.n = 0 THEN Raised("ZeroDivisionError")
    ELSE Returned(Num(RoundHalfEven((current_usd.n - previous_usd.n) * 10000,
                                    previous_usd.n)))

\* previous or 0
OrZero(previous) == IF Truthy(previous) THEN previous ELSE Num(0)

\* change_for with the arguments of calculate_change exchanged.
change_for_swapped(previous, usd) ==
    IF Truthy(previous) THEN calculate_change(usd, OrZero(previous))
    ELSE Returned(Num(0))

\* calculate_change(previous or 0, usd) if previous else 0.0
change_for(previous, usd) ==
    IF Truthy(previous) THEN calculate_change(OrZero(previous), usd)
    ELSE Returned(Num(0))

price_data(timestamp, metal, usd, change) ==
    [date |-> timestamp, metal |-> metal, price_usd |-> usd, price_change |-> change]

\* None, the pair of records, or the exception a step raised.
transform_prices(prices, previous_gold, previous_silver) ==
    IF ~validate_data(prices) THEN Returned(None)
    ELSE LET timestamp == prices["timestamp"]
             gold_usd == prices["pax-gold"]
             gold_change == change_for(previous_gold, gold_usd)
             silver_usd == prices["silver-token-xagx"]
             silver_change == change_for(previous_silver, silver_usd)
         IN IF gold_change.raised THEN gold_change
            ELSE IF silver_change.raised THEN silver_change
            ELSE Returned([t |-> "pair",
                           gold_data |-> price_data(timestamp, "gold", gold_usd,
                                                    gold_change.value),
                           silver_data |-> price_data(timestamp, "silver", silver_usd,
                                                      silver_change.value)])

(***************************************************************************)
(* app/database.py: the SQLite store as one connection sees it             *)
(*                                                                         *)
(* db.table is the committed (durable) content of PreciousMetals, a bag of *)
(* rows; db.pending holds the rows the connection has inserted in its open *)
(* transaction and not yet committed.                                      *)
(***************************************************************************)
\* A driver starts a run, and a caller an insert, only while the store holds
\* fewer rows than this; a run that repeats the snapshot of the run before it
\* starts on any store.
MaxRows == 3

\* What the storage layer does to a call: nothing, or sqlite3.Error raised by
\* connect, by the SELECT, by the INSERT, or by COMMIT.  A failed COMMIT leaves
\* the transaction open (SQLITE_BUSY) or rolled back (SQLITE_FULL, SQLITE_IOERR).
Faults == {"none", "connect", "select", "insert", "commit_busy", "commit_rollback"}

\* The faults that can meet an insert_price call.
CallFaults == Faults \ {"connect"}

View(db) == db.table (+) db.pending

Size(rows) == BagCardinality(rows)

RowsOf(rows, metal) == {r \in BagToSet(rows) : r.metal = metal}

\* SELECT price_usd, date ... WHERE metal = ? ORDER BY date DESC LIMIT 1:
\* the rows (none or one) that come first when the metal's rows are ordered by
\* date text, descending.
select_latest(rows, metal) ==
    LET of == RowsOf(rows, metal)
    IN IF of = {} THEN {}
       ELSE {CHOOSE r \in of : \A q \in of : TextLess(q.date, r.date) \/ q.date = r.date}

get_latest_price(db, metal, fault) ==
    IF fault = "select" THEN None
    ELSE LET result == select_latest(View(db), metal)
         IN IF result = {} THEN None
            ELSE LET r == CHOOSE x \in result : TRUE
                 IN [t |-> "row", price_usd |-> r.price_usd, date |-> r.date]

\* A table created without the UNIQUE constraint.
unique_missing(rows, date, metal) == TRUE

\* UNIQUE(date, metal)
unique_ok(rows, date, metal) ==
    \A r \in BagToSet(rows) : ~(r.date = date /\ r.metal = metal)

\* INSERT that checks no constraint.
sql_insert_unchecked(db, row, fault) ==
    IF fault = "insert" THEN Raised("OperationalError")
    ELSE Returned([table |-> db.table, pending |-> db.pending (+) SetToBag({row})])

\* INSERT INTO PreciousMetals ...: the new open transaction, or the error.
sql_insert(db, row, fault) ==
    IF fault = "insert" THEN Raised("OperationalError")
    ELSE IF ~unique_ok(View(db), row.date, row.metal) THEN Raised("IntegrityError")
    ELSE Returned([table |-> db.table, pending |-> db.pending (+) SetToBag({row})])

\* conn.commit()
sql_commit(db, fault) ==
    IF fault = "commit_busy" THEN [raised |-> TRUE, db |-> db]
    ELSE IF fault = "commit_rollback"
         THEN [raised |-> TRUE, db |-> [table |-> db.table, pending |-> EmptyBag]]
    ELSE [raised |-> FALSE, db |-> [table |-> View(db), pending |-> EmptyBag]]

\* conn.close(): the open transaction is rolled back.
sql_close(db) == [table |-> db.table, pending |-> EmptyBag]

\* The freshness check with the comparison turned round (latest <= date).
freshness_reversed(latest, date) ==
    IF latest = None THEN "pass"
    ELSE LET c == DateNotNewer(latest.date, date)
         IN IF c = "True" THEN "skip"
            ELSE IF c = "False" THEN "pass"
            ELSE "error"

\* The freshness check of insert_price: "skip" (not newer), "error" (the
\* comparison raised) or "pass".
freshness(latest, date) ==
    IF latest = None THEN "pass"
    ELSE LET c == DateNotNewer(date, latest.date)
         IN IF c = "True" THEN "skip"
            ELSE IF c = "False" THEN "pass"
            ELSE "error"

\* The returned bool and the store the call leaves behind.
insert_price(db, date, metal, price_usd, price_change, fault) ==
    IF date = EmptyText \/ metal = "" \/ price_usd = None
    THEN [ret |-> FALSE, db |-> db]
    ELSE LET latest == get_latest_price(db, metal, fault)
         IN IF freshness(latest, date) # "pass" THEN [ret |-> FALSE, db |-> db]
            ELSE LET ins == sql_insert(db, price_data(date, metal, price_usd,
                                                       price_change), fault)
                 IN IF ins.raised THEN [ret |-> FALSE, db |-> db]
                    ELSE LET com == sql_commit(ins.value, fault)
                         IN [ret |-> ~com.raised, db |-> com.db]

(***************************************************************************)
(* State                                                                   *)
(***************************************************************************)
VARIABLES
    db,                     \* the store: [table, pending]
    conn,                   \* the caller's connection: "none", "open", "closed"
    pc,                     \* where the driver stands
    prices,                 \* run_etl: the fetched snapshot
    previous_gold_price,    \* run_etl locals
    previous_silver_price,
    transformed,
    inserted_gold,
    inserted_silver,
    call,                   \* the latest insert_price call: arguments, fault, result
    table_at_start,         \* the durable table when the current run started
    n_inserts,              \* insert_price calls the current run has issued
    faulted,                \* a storage fault was injected into the current run
    prev_prices,            \* snapshot of the run that just completed cleanly
    replay,                 \* the current run repeats that snapshot on that store
    h_in,                   \* arguments of a pure function under test
    h_out                   \* its result

store_vars == <<db, conn>>

run_vars == <<prices, previous_gold_price, previous_silver_price, transformed,
              inserted_gold, inserted_silver>>

hist_vars == <<call, table_at_start, n_inserts, faulted, prev_prices, replay>>

harness_vars == <<h_in, h_out>>

vars == <<db, conn, pc, prices, previous_gold_price, previous_silver_price,
          transformed, inserted_gold, inserted_silver, call, table_at_start,
          n_inserts, faulted, prev_prices, replay, h_in, h_out>>

PyBool(b) == [t |-> "bool", b |-> b]

CallRecord(date, metal, price_usd, price_change, fault, ret) ==
    [date |-> date, metal |-> metal, price_usd |-> price_usd,
     price_change |-> price_change, fault |-> fault, ret |-> ret]

EmptyDb == [table |-> EmptyBag, pending |-> EmptyBag]

InitProgram ==
    /\ db = EmptyDb
    /\ conn = "none"
    /\ pc = "idle"
    /\ prices = None
    /\ previous_gold_price = None
    /\ previous_silver_price = None
    /\ transformed = None
    /\ inserted_gold = None
    /\ inserted_silver = None
    /\ call = None
    /\ table_at_start = EmptyBag
    /\ n_inserts = 0
    /\ faulted = FALSE
    /\ prev_prices = None
    /\ replay = FALSE

Init ==
    /\ InitProgram
    /\ h_in = None
    /\ h_out = None

(***************************************************************************)
(* app/main.py: run_etl, one action per step                               *)
(***************************************************************************)
\* Step 1: prices = fetch_metal_prices(); a failed fetch returns at once.
RunFetch ==
    /\ pc = "idle"
    /\ \E p \in Snapshots \cup {None} :
         /\ Size(db.table) < MaxRows \/ (prev_prices # None /\ p = prev_prices)
         /\ prices' = p
         /\ pc' = IF p = None THEN "done" ELSE "connect"
         /\ replay' = (prev_prices # None /\ p = prev_prices)
    /\ prev_prices' = None
    /\ table_at_start' = db.table
    /\ n_inserts' = 0
    /\ faulted' = FALSE
    /\ UNCHANGED <<store_vars, previous_gold_price, previous_silver_price, transformed,
                   inserted_gold, inserted_silver, call, harness_vars>>

\* Step 2: conn = create_connection(); None on sqlite3.Error.
RunConnect(F) ==
    /\ pc = "connect"
    /\ \E fault \in F \cap {"none", "connect"} :
         /\ conn' = IF fault = "none" THEN "open" ELSE "none"
         /\ pc' = IF fault = "none" THEN "previous" ELSE "done"
         /\ faulted' = (fault # "none")
    /\ UNCHANGED <<db, run_vars, call, table_at_start, n_inserts, prev_prices, replay,
                   harness_vars>>

PriceOf(latest) == IF latest = None THEN None ELSE latest.price_usd

\* Step 3: the previous prices.
RunGetPrevious(F) ==
    /\ pc = "previous"
    /\ \E fg \in F \cap {"none", "select"}, fs \in F \cap {"none", "select"} :
         /\ previous_gold_price' = PriceOf(get_latest_price(db, "gold", fg))
         /\ previous_silver_price' = PriceOf(get_latest_price(db, "silver", fs))
         /\ faulted' = (faulted \/ fg # "none" \/ fs # "none")
    /\ pc' = "transform"
    /\ UNCHANGED <<store_vars, prices, transformed, inserted_gold, inserted_silver, call,
                   table_at_start, n_inserts, prev_prices, replay, harness_vars>>

\* Step 4 with its "return" outside the try block: a failed transformation
\* leaves run_etl without passing through finally.
RunTransform_return_outside_try ==
    /\ pc = "transform"
    /\ LET r == transform_prices(prices, previous_gold_price, previous_silver_price)
       IN IF r.raised \/ r.value = None
          THEN /\ pc' = "done"
               /\ UNCHANGED transformed
          ELSE /\ pc' = "insert_gold"
               /\ transformed' = r.value
    /\ UNCHANGED <<store_vars, prices, previous_gold_price, previous_silver_price,
                   inserted_gold, inserted_silver, hist_vars, harness_vars>>

\* Step 4: transform; None returns through finally, an exception through except.
RunTransform ==
    /\ pc = "transform"
    /\ LET r == transform_prices(prices, previous_gold_price, previous_silver_price)
       IN IF r.raised \/ r.value = None
          THEN /\ pc' = "finally"
               /\ UNCHANGED transformed
          ELSE /\ pc' = "insert_gold"
               /\ transformed' = r.value
    /\ UNCHANGED <<store_vars, prices, previous_gold_price, previous_silver_price,
                   inserted_gold, inserted_silver, hist_vars, harness_vars>>

\* Step 5: the two inserts.
RunInsertGold(F) ==
    /\ pc = "insert_gold"
    /\ \E fault \in F \cap CallFaults :
         LET d == transformed.gold_data
             r == insert_price(db, d.date, d.metal, d.price_usd, d.price_change, fault)
         IN /\ db' = r.db
            /\ inserted_gold' = PyBool(r.ret)
            /\ call' = CallRecord(d.date, d.metal, d.price_usd, d.price_change, fault, r.ret)
            /\ faulted' = (faulted \/ fault # "none")
    /\ n_inserts' = n_inserts + 1
    /\ pc' = "insert_silver"
    /\ UNCHANGED <<conn, prices, previous_gold_price, previous_silver_price, transformed,
                   inserted_silver, table_at_start, prev_prices, replay, harness_vars>>

RunInsertSilver(F) ==
    /\ pc = "insert_silver"
    /\ \E fault \in F \cap CallFaults :
         LET d == transformed.silver_data
             r == insert_price(db, d.date, d.metal, d.price_usd, d.price_change, fault)
         IN /\ db' = r.db
            /\ inserted_silver' = PyBool(r.ret)
            /\ call' = CallRecord(d.date, d.metal, d.price_usd, d.price_change, fault, r.ret)
            /\ faulted' = (faulted \/ fault # "none")
    /\ n_inserts' = n_inserts + 1
    /\ pc' = "plot"
    /\ UNCHANGED <<conn, prices, previous_gold_price, previous_silver_price, transformed,
                   inserted_gold, table_at_start, prev_prices, replay, harness_vars>>

\* create_price_plot() reads through a connection of its own and catches every
\* exception; it leaves the store alone.
RunPlot ==
    /\ pc = "plot"
    /\ pc' = "finally"
    /\ UNCHANGED <<store_vars, run_vars, hist_vars, harness_vars>>

\* finally: conn.close()
RunFinally ==
    /\ pc = "finally"
    /\ db' = sql_close(db)
    /\ conn' = "closed"
    /\ pc' = "done"
    /\ UNCHANGED <<run_vars, hist_vars, harness_vars>>

\* A run that transformed and met no storage fault.
CleanRun == transformed # None /\ ~faulted

\* run_etl returns; its locals die.
RunReturn ==
    /\ pc = "done"
    /\ pc' = "idle"
    /\ conn' = "none"
    /\ prices' = None
    /\ previous_gold_price' = None
    /\ previous_silver_price' = None
    /\ transformed' = None
    /\ inserted_gold' = None
    /\ inserted_silver' = None
    /\ call' = None
    /\ n_inserts' = 0
    /\ faulted' = FALSE
    /\ replay' = FALSE
    /\ table_at_start' = EmptyBag
    /\ prev_prices' = IF CleanRun THEN prices ELSE None
    /\ UNCHANGED <<db, harness_vars>>

(***************************************************************************)
(* Any other caller of insert_price (the backfill driver, the tests): it   *)
(* opens a connection, calls insert_price with arguments of its choice,    *)
(* and closes the connection.                                              *)
(***************************************************************************)
ClientArgs ==
    {<<d, m, ClientPrice>> : d \in Dates, m \in Metals}
      \cup {<<EmptyText, "gold", ClientPrice>>, <<T1100, "", ClientPrice>>,
            <<T1100, "gold", None>>}

ClientConnect ==
    /\ pc = "idle"
    /\ Size(db.table) < MaxRows
    /\ pc' = "client"
    /\ conn' = "open"
    /\ prev_prices' = None
    /\ UNCHANGED <<db, run_vars, call, table_at_start, n_inserts, faulted, replay,
                   harness_vars>>

ClientInsert(F) ==
    /\ pc = "client"
    /\ Size(View(db)) < MaxRows
    /\ \E a \in ClientArgs, fault \in F \cap CallFaults :
         LET r == insert_price(db, a[1], a[2], a[3], Num(0), fault)
         IN /\ db' = r.db
            /\ call' = CallRecord(a[1], a[2], a[3], Num(0), fault, r.ret)
    /\ pc' = "client_returned"
    /\ UNCHANGED <<conn, run_vars, table_at_start, n_inserts, faulted, prev_prices,
                   replay, harness_vars>>

\* The caller has looked at the returned bool and goes on.
ClientContinue ==
    /\ pc = "client_returned"
    /\ pc' = "client"
    /\ call' = None
    /\ UNCHANGED <<store_vars, run_vars, table_at_start, n_inserts, faulted, prev_prices,
                   replay, harness_vars>>

ClientClose ==
    /\ pc = "client"
    /\ db' = sql_close(db)
    /\ conn' = "none"
    /\ pc' = "idle"
    /\ UNCHANGED <<run_vars, hist_vars, harness_vars>>

\* Every step of every driver, the storage layer failing as F allows.
Step(F) ==
    \/ RunFetch
    \/ RunConnect(F)
    \/ RunGetPrevious(F)
    \/ RunTransform
    \/ RunInsertGold(F)
    \/ RunInsertSilver(F)
    \/ RunPlot
    \/ RunFinally
    \/ RunReturn
    \/ ClientConnect
    \/ ClientInsert(F)
    \/ ClientContinue
    \/ ClientClose

Next == Step(Faults)

Spec == Init /\ [][Next]_vars

\* The same program on a storage layer that never fails.
NextReliable == Step({"none"})

SpecReliable == Init /\ [][NextReliable]_vars

\* Where run_etl stands between its fetch and its return.
RunPcs ==
    {"connect", "previous", "transform", "insert_gold", "insert_silver", "plot",
     "finally", "done"}

\* run_etl goes from one statement to the next: every step of a run that has
\* started is a step of run_etl and moves pc.
RunAdvances ==
    /\ pc \in RunPcs
    /\ pc' \in RunPcs \cup {"idle"}
    /\ pc' # pc

\* The interpreter runs run_etl without suspending it (single thread, no
\* await, no blocking call after the fetch): a run is never left standing.
SpecLive == Spec /\ WF_pc(RunAdvances)

(***************************************************************************)
(* The pure functions of app/transform.py on their own: the arguments are  *)
(* drawn in the initial state and one action applies the function.         *)
(***************************************************************************)
\* None, a non-numeric string, zero, 1000.0, 1050.0, 950.0, 30.0, 28.5, 0.7
\* and -1000.0.
ChangeInputs ==
    {None, Str("invalid"), Num(0), Num(10000), Num(10500), Num(9500), Num(300),
     Num(285), Num(7), Num(-10000)}

InitChange ==
    /\ InitProgram
    /\ h_in \in {[fn |-> "calculate_change", previous |-> p, current |-> c] :
                   p \in ChangeInputs, c \in ChangeInputs}
    /\ h_out = None

CallCalculateChange ==
    /\ h_in # None
    /\ h_in.fn = "calculate_change"
    /\ h_out = None
    /\ h_out' = calculate_change(h_in.previous, h_in.current)
    /\ UNCHANGED <<store_vars, pc, run_vars, hist_vars, h_in>>

SpecChange == InitChange /\ [][CallCalculateChange]_vars

\* The snapshots of the runs, one whose gold price is text float() accepts and
\* one whose gold price is 0.0.
TransformSnapshots ==
    Snapshots \cup {Snapshot(Str("2100"), Num(285), T1100),
                    Snapshot(Num(0), Num(300), S1200)}

\* What get_latest_price can hand to run_etl: nothing, 0.0, 2000.0, 30.0.
PreviousPrices == {None, Num(0), Num(20000), Num(300)}

InitTransform ==
    /\ InitProgram
    /\ h_in \in {[fn |-> "transform_prices", prices |-> s, previous_gold |-> g,
                  previous_silver |-> v] :
                   s \in TransformSnapshots, g \in PreviousPrices, v \in PreviousPrices}
    /\ h_out = None

CallTransformPrices ==
    /\ h_in # None
    /\ h_in.fn = "transform_prices"
    /\ h_out = None
    /\ h_out' = transform_prices(h_in.prices, h_in.previous_gold, h_in.previous_silver)
    /\ UNCHANGED <<store_vars, pc, run_vars, hist_vars, h_in>>

SpecTransform == InitTransform /\ [][CallTransformPrices]_vars

(***************************************************************************)
(* Properties                                                              *)
(***************************************************************************)
\* The step is an insert_price call; call' holds its arguments and result.
InsertStep ==
    /\ pc \in {"client", "insert_gold", "insert_silver"}
    /\ pc' # pc
    /\ call' # None

RowOf(c) == price_data(c.date, c.metal, c.price_usd, c.price_change)

One(row) == SetToBag({row})

\* date a is strictly later than date b (both parse and can be compared).
Later(a, b) == DateNotNewer(a, b) = "False"

UniqueRows(rows) ==
    /\ \A r \in BagToSet(rows) : CopiesIn(r, rows) = 1
    /\ \A r, q \in BagToSet(rows) : (r.date = q.date /\ r.metal = q.metal) => r = q

\* C1: insert_price never returns True for a record whose (parseable) date is
\* temporally at or before a date already stored for the same metal.
MonotonicInsertGuard ==
    [][(InsertStep /\ call'.ret /\ fromisoformat(call'.date).ok)
         => \A r \in RowsOf(View(db), call'.metal) :
              DateNotNewer(call'.date, r.date) # "True"]_vars

\* C2: a clean run that repeats the snapshot of the clean run just before it,
\* on the store that run left, ends with the durable table as it found it,
\* both inserts returning False and no (date, metal) pair stored twice.
RunIdempotent ==
    (pc = "done" /\ replay /\ CleanRun)
      => /\ db.table = table_at_start
         /\ inserted_gold = PyBool(FALSE)
         /\ inserted_silver = PyBool(FALSE)
         /\ UniqueRows(db.table)

\* C2 happens: the repeated run is over, and the records of its snapshot, which
\* the first run wrote, are stored for both metals.
RunIdempotentWitness ==
    /\ pc = "done"
    /\ replay
    /\ CleanRun
    /\ \A m \in Metals : \E r \in RowsOf(db.table, m) : r.date = prices["timestamp"]

\* C3: no two rows of the store, committed or pending, share (date, metal).
UniqueDateMetal == UniqueRows(View(db))

\* C3 happens: the lookup failed, so the freshness check was skipped, and the
\* INSERT of a stored (date, metal) was refused.
UniqueDateMetalWitness ==
    /\ call # None
    /\ call.fault = "select"
    /\ ~call.ret
    /\ call.date # EmptyText /\ call.metal # "" /\ call.price_usd # None
    /\ \E r \in RowsOf(View(db), call.metal) : r.date = call.date

\* C4: the durable table changes only in an insert_price call that returns
\* True, and then by exactly the record of that call; a call that returns
\* False leaves it as it was.
InsertResultReportsEffect ==
    [][/\ InsertStep => IF call'.ret THEN db'.table = db.table (+) One(RowOf(call'))
                        ELSE db'.table = db.table
       /\ db'.table # db.table => (InsertStep /\ call'.ret)]_vars

\* C5: a call with non-empty date and metal and a price, met by no storage
\* fault, returns True and stores its record when the metal has no row or when
\* its date is strictly later than the date of every row of the metal.
AcceptsFreshRecords ==
    [][(/\ InsertStep
        /\ call'.fault = "none"
        /\ call'.date # EmptyText /\ call'.metal # "" /\ call'.price_usd # None
        /\ \/ RowsOf(View(db), call'.metal) = {}
           \/ \A r \in RowsOf(View(db), call'.metal) : Later(call'.date, r.date))
         => /\ call'.ret
            /\ db'.table = View(db) (+) One(RowOf(call'))
            /\ db'.pending = EmptyBag]_vars

\* C5 happens: a call returned True for a date later than the dates of the
\* rows the metal already had.
AcceptsFreshRecordsWitness ==
    /\ call # None
    /\ call.ret
    /\ call.fault = "none"
    /\ \E r \in RowsOf(db.table, call.metal) : r.date # call.date
    /\ \A r \in RowsOf(db.table, call.metal) : r.date # call.date => Later(call.date, r.date)

\* C6: a call whose date does not parse returns False and its record is not
\* stored.
MalformedDateRejected ==
    (call # None /\ ~fromisoformat(call.date).ok)
      => /\ ~call.ret
         /\ \A r \in RowsOf(View(db), call.metal) : r.date # call.date

\* C7: get_latest_price returns None exactly when the metal has no row, and
\* otherwise the price and date of a row than which no row of the metal is
\* later.
LatestIsMostRecent ==
    \A m \in Metals :
      LET latest == get_latest_price(db, m, "none")
          rows == RowsOf(View(db), m)
      IN /\ latest = None <=> rows = {}
         /\ latest # None
              => /\ \E r \in rows : r.date = latest.date /\ r.price_usd = latest.price_usd
                 /\ \A r \in rows : ~Later(r.date, latest.date)

\* The change transform_prices is to report for one metal.
ExpectedChange(previous, usd) ==
    IF previous = None \/ previous = Num(0) THEN Num(0)
    ELSE calculate_change(previous, usd).value

\* C8: for a valid snapshot transform_prices returns the gold and the silver
\* record, dated with the snapshot's timestamp and priced with its prices;
\* the change is 0.0 for a previous price of None or 0.0 and
\* calculate_change(previous, current) otherwise.
PreviousPricePolicy ==
    (h_out # None /\ h_in.fn = "transform_prices" /\ h_in.prices \notin InvalidSnapshots)
      => /\ ~h_out.raised
         /\ h_out.value # None
         /\ DOMAIN h_out.value = {"t", "gold_data", "silver_data"}
         /\ h_out.value.gold_data =
              price_data(h_in.prices["timestamp"], "gold", h_in.prices["pax-gold"],
                         ExpectedChange(h_in.previous_gold, h_in.prices["pax-gold"]))
         /\ h_out.value.silver_data =
              price_data(h_in.prices["timestamp"], "silver",
                         h_in.prices["silver-token-xagx"],
                         ExpectedChange(h_in.previous_silver,
                                        h_in.prices["silver-token-xagx"]))

\* C8 happens: previous gold 0.0 gave change 0.0 and previous silver 30.0 with
\* silver at 28.5 gave -5.0.
PreviousPricePolicyWitness ==
    /\ h_out # None
    /\ h_in.fn = "transform_prices"
    /\ h_in.previous_gold = Num(0)
    /\ h_in.previous_silver = Num(300)
    /\ h_in.prices = Snapshot(Num(21000), Num(285), S1200)
    /\ ~h_out.raised
    /\ h_out.value.gold_data.price_change = Num(0)
    /\ h_out.value.silver_data.price_change = Num(-500)

Abs(n) == IF n < 0 THEN 0 - n ELSE n

\* C9: calculate_change never raises; it returns 0.0 when previous is 0 or an
\* argument is not a number, and otherwise the hundredth of a percent nearest
\* to ((current - previous) / previous) * 100; change(1000, 1050) is 5.0 and
\* change(1000, 950) is -5.0.
ChangeDegradesNotFails ==
    (h_out # None /\ h_in.fn = "calculate_change")
      => LET p == h_in.previous
             c == h_in.current
         IN /\ ~h_out.raised
            /\ IF ~IsNum(p) \/ ~IsNum(c) THEN h_out.value = Num(0)
               ELSE IF p.n = 0 THEN h_out.value = Num(0)
               ELSE /\ IsNum(h_out.value)
                    /\ 2 * Abs(h_out.value.n * p.n - (c.n - p.n) * 10000) <= Abs(p.n)
            /\ (p = Num(10000) /\ c = Num(10500)) => h_out.value = Num(500)
            /\ (p = Num(10000) /\ c = Num(9500)) => h_out.value = Num(-500)

\* C9 happens: a non-numeric previous price was answered with 0.0.
ChangeDegradesNotFailsWitness ==
    /\ h_out # None
    /\ h_in.fn = "calculate_change"
    /\ h_in.previous = Str("invalid")
    /\ h_in.current = Num(10000)
    /\ h_out = Returned(Num(0))

InRun ==
    pc \in {"connect", "previous", "transform", "insert_gold", "insert_silver", "plot",
            "finally", "done"}

\* C10: a run whose snapshot fails validation produces no record, issues no
\* insert and leaves the store as it found it.
ValidationFailureAbortsRun ==
    (InRun /\ prices \in InvalidSnapshots)
      => /\ transformed = None
         /\ pc \notin {"insert_gold", "insert_silver", "plot"}
         /\ n_inserts = 0
         /\ db.table = table_at_start
         /\ db.pending = EmptyBag

\* C10 happens: a run on a non-empty store ended after its snapshot failed
\* validation.
ValidationFailureAbortsRunWitness ==
    /\ pc = "done"
    /\ conn = "closed"
    /\ prices \in InvalidSnapshots
    /\ db.table # EmptyBag

\* The row of a metal whose date parses and is later than the date of every
\* other row of that metal.
MostRecent(rows, metal) ==
    {r \in RowsOf(rows, metal) :
       /\ fromisoformat(r.date).ok
       /\ \A q \in RowsOf(rows, metal) : q = r \/ Later(r.date, q.date)}

\* C11: a record a run's insert_price call has written carries the change
\* calculate_change(p, price) for the price p of the metal's most recent row in
\* the table the run started on, and 0.0 when the metal had no row there.
ChangeAgainstLatestBeforeRun ==
    (pc \in {"insert_silver", "plot"} /\ call # None /\ call.ret)
      => IF RowsOf(table_at_start, call.metal) = {} THEN call.price_change = Num(0)
         ELSE \A r \in MostRecent(table_at_start, call.metal) :
                call.price_change = calculate_change(r.price_usd, call.price_usd).value

\* The faults that make insert_price fail to write.
WriteFaults == {"insert", "commit_busy", "commit_rollback"}

\* C12: after a gold insert that met a write failure the run issues no further
\* insert_price call, and a run that has ended holds no open connection.
PersistenceFaultStopsRun ==
    [][/\ (pc = "insert_silver" /\ call # None /\ call.fault \in WriteFaults)
            => n_inserts' = n_inserts
       /\ pc' = "done" => conn' # "open"]_vars

\* The connection is the one run_etl acquired.
HeldByRun == conn = "open" /\ pc \notin {"client", "client_returned"}

\* C13: a run that acquired the connection releases it before it returns, on
\* every path; it releases it once, and after the release it reads nothing,
\* inserts nothing and only returns.
ScopedConnection ==
    /\ [](pc = "done" => conn # "open")
    /\ [](conn = "closed" => pc = "done")
    /\ [][conn = "closed"
            => /\ pc' = "idle"
               /\ conn' = "none"
               /\ db' = db
               /\ n_inserts' <= n_inserts]_vars
    /\ [][(conn = "open" /\ conn' # "open")
            => IF HeldByRun THEN pc = "finally" /\ conn' = "closed" /\ pc' = "done"
               ELSE pc = "client"]_vars
    /\ (HeldByRun ~> conn = "closed")

\* C13 happens: a run whose silver insert met a storage fault, after the gold
\* insert had stored its record, has released the connection.
ScopedConnectionWitness ==
    /\ pc = "done"
    /\ conn = "closed"
    /\ n_inserts = 2
    /\ inserted_gold = PyBool(TRUE)
    /\ call # None
    /\ call.fault \in WriteFaults

\* The rows of one metal, as a bag.
BagOf(rows, metal) == [r \in RowsOf(rows, metal) |-> CopiesIn(r, rows)]

\* The store with the rows of every other metal taken away.
StoreOf(store, metal) ==
    [table |-> BagOf(store.table, metal), pending |-> BagOf(store.pending, metal)]

\* C14: an insert_price call leaves the durable rows of the other metal as
\* they were, adds to the durable table its own record or nothing, and returns
\* what it would return on the store that holds the rows of its own metal only.
PerAssetAtomicInsert ==
    [][InsertStep
         => /\ \A m \in Metals \ {call'.metal} :
                 BagOf(db'.table, m) = BagOf(db.table, m)
            /\ db'.table \in {db.table, db.table (+) One(RowOf(call'))}
            /\ call'.ret = insert_price(StoreOf(db, call'.metal), call'.date,
                                        call'.metal, call'.price_usd,
                                        call'.price_change, call'.fault).ret]_vars

=============================================================================
